---- MODULE Spec2Model ----
(***************************************************************************)
(* Model of the component-transfer action of the multi-site-location      *)
(* plugin (hook/actions/transfer_action.py).                               *)
(*                                                                         *)
(* The event hub delivers launch events to TransferComponentsPlusAction    *)
(* .launch one after the other.  A launch with distinct locations spawns   *)
(* transfer_components on a thread of its own (_async); the thread creates *)
(* a Job in a private session, resolves the components, and copies them    *)
(* one by one, committing the job's progress before every copy.  Every     *)
(* call into the catalog (commit, query) and into the location service     *)
(* (add_component) is a step whose outcome the environment chooses.        *)
(***************************************************************************)
EXTENDS Integers, Sequences, FiniteSets, TLC

\* ---------------------------------------------------------------- bounds
\* Number of launch events delivered to the action.
MaxInv == 2
\* Number of components known to the catalog.
MaxComp == 2
\* Number of catalog calls (commit, query) the environment lets raise.
MaxFaults == 1

Inv == 1..MaxInv
Components == 1..MaxComp
\* Location ids a submitted form can carry (spec.md section 8 scenario).
Locations == {"vault-A", "vault-B"}

\* ------------------------------------------------------------- constants
None == "none"
ComponentInLocationError == "ComponentInLocationError"
ComponentNotInLocationError == "ComponentNotInLocationError"
LocationError == "LocationError"
OtherError == "Exception"
\* What a catalog call raises: the query of the resolver, a commit.
QueryError == "QueryError"
CommitError == "CommitError"
Copied == "ok"

\* ftrack_api.exception: both component errors derive from LocationError,
\* so the three except clauses are tried in the order written.
LocationErrors ==
    {ComponentInLocationError, ComponentNotInLocationError, LocationError}

SameLocationResponse ==
    [success |-> FALSE, message |-> "Source and target locations are the same."]
TransferringResponse ==
    [success |-> TRUE, message |-> "Transferring components..."]
NoResponse == [success |-> FALSE, message |-> None]
\* An exception leaving launch instead of a returned value.
RaisedResponse == [success |-> FALSE, message |-> "raised"]

\* --------------------------------------------------------------- helpers
\* list(components), line 218: the elements of a set, each once, in the
\* set's iteration order.  Components are numbered in that order.
RECURSIVE SetToList(_)
SetToList(S) ==
    IF S = {} THEN <<>>
    ELSE LET x == CHOOSE y \in S : \A z \in S : y <= z
         IN <<x>> \o SetToList(S \ {x})

\* json.dumps({'description': 'Transfer components (Gathering...)'}).
GatheringData == [description |-> "Transfer components (Gathering...)",
                  index |-> 0, amount |-> 0]

\* Faulty variant of ProgressData: the two format arguments swapped.
ProgressData_Swapped(index, amount) ==
    [description |-> "Transfer components ({0} of {1})",
     index |-> amount, amount |-> index]

\* Faulty variant of ProgressData: enumerate without start=1.
ProgressData_ZeroBased(index, amount) ==
    [description |-> "Transfer components ({0} of {1})",
     index |-> index - 1, amount |-> amount]

\* json.dumps({'description': 'Transfer components ({0} of {1})'}).
ProgressData(index, amount) ==
    [description |-> "Transfer components ({0} of {1})",
     index |-> index, amount |-> amount]

\* Faulty variants of _async: a wrapper that joins the thread before
\* returning, and one that calls fn in the caller's thread.
AsyncMode_Join == "join"
AsyncMode_Inline == "inline"

\* _async: the wrapper starts the thread and returns at once ("start").
\* "join" would wait for the thread, "inline" would call fn in the caller.
AsyncMode == "start"

\* A session with no recorded operation on the job.
NoData == [description |-> None, index |-> 0, amount |-> 0]
NoOps == [status |-> None, data |-> NoData]

\* Faulty variants of HandleCopyError.  A missing component is always
\* skipped:
HandleCopyError_MissingSkipped(error, ignore_component_not_in_location, ignore_location_errors) ==
    IF error = ComponentInLocationError THEN "continue"
    ELSE IF error = ComponentNotInLocationError THEN "continue"
    ELSE IF error \in LocationErrors
         THEN IF ignore_location_errors THEN "continue" ELSE "raise"
    ELSE "raise"
\* a missing component is skipped only under its own flag:
HandleCopyError_MissingOwnFlag(error, ignore_component_not_in_location, ignore_location_errors) ==
    IF error = ComponentInLocationError THEN "continue"
    ELSE IF error = ComponentNotInLocationError
         THEN IF ignore_component_not_in_location
              THEN "continue" ELSE "raise"
    ELSE IF error \in LocationErrors
         THEN IF ignore_location_errors THEN "continue" ELSE "raise"
    ELSE "raise"
\* no clause for ComponentInLocationError:
HandleCopyError_NoInLocationClause(error, ignore_component_not_in_location, ignore_location_errors) ==
    IF error = ComponentNotInLocationError
    THEN IF ignore_component_not_in_location \/ ignore_location_errors
         THEN "continue" ELSE "raise"
    ELSE IF error \in LocationErrors
         THEN IF ignore_location_errors THEN "continue" ELSE "raise"
    ELSE "raise"
\* the LocationError clause tests both flags:
HandleCopyError_EitherFlag(error, ignore_component_not_in_location, ignore_location_errors) ==
    IF error = ComponentInLocationError THEN "continue"
    ELSE IF error = ComponentNotInLocationError
         THEN IF ignore_component_not_in_location \/ ignore_location_errors
              THEN "continue" ELSE "raise"
    ELSE IF error \in LocationErrors
         THEN IF ignore_component_not_in_location \/ ignore_location_errors
              THEN "continue" ELSE "raise"
    ELSE "raise"

\* a last clause swallows every exception when both flags are set:
HandleCopyError_CatchAll(error, ignore_component_not_in_location, ignore_location_errors) ==
    IF error = ComponentInLocationError THEN "continue"
    ELSE IF error = ComponentNotInLocationError
         THEN IF ignore_component_not_in_location \/ ignore_location_errors
              THEN "continue" ELSE "raise"
    ELSE IF error \in LocationErrors
         THEN IF ignore_location_errors THEN "continue" ELSE "raise"
    ELSE IF ignore_component_not_in_location /\ ignore_location_errors
         THEN "continue" ELSE "raise"

\* The except clauses of lines 279-292: "continue" when the error is
\* swallowed, "raise" when it leaves the inner try.
HandleCopyError(error, ignore_component_not_in_location, ignore_location_errors) ==
    IF error = ComponentInLocationError THEN "continue"
    ELSE IF error = ComponentNotInLocationError
         THEN IF ignore_component_not_in_location \/ ignore_location_errors
              THEN "continue" ELSE "raise"
    ELSE IF error \in LocationErrors
         THEN IF ignore_location_errors THEN "continue" ELSE "raise"
    ELSE "raise"

\* Faulty variant of LoopStep: the body runs once before the list is
\* tested.
LoopStep_BodyFirst(index, amount) ==
    IF index < amount \/ index = 0 THEN "progress" ELSE "done"

\* The for statement of line 264: another component, or fall through to
\* line 294.
LoopStep(index, amount) == IF index < amount THEN "progress" ELSE "done"

\* session.commit(): a commit that returns persists the recorded
\* operations; one that raises persists nothing.
Commit(ok, persisted, ops) ==
    IF ~ok THEN persisted
    ELSE [persisted EXCEPT
            !.status = IF ops.status = None THEN @ ELSE ops.status,
            !.data = IF ops.data = NoData THEN @ ELSE ops.data]

VARIABLES
    lpc,        \* launch handler of event i: "waiting", "spawned", "returned"
    request,    \* the values submitted with launch event i
    response,   \* what launch handed back to the event hub
    tpc,        \* position of the thread running transfer_components
    components, \* the list the resolver returned
    index,      \* loop index of line 264
    jobs,       \* the catalog's Job records, keyed by the creating invocation
    jobLog,     \* per Job record, the statuses and data it has held
    created,    \* number of Job records invocation i has had created
    jobId,      \* the job the thread holds (0: none yet)
    ops,        \* operations recorded in the thread's session, uncommitted
    attempted,  \* components passed to add_component, in call order
    outcomes,   \* what each of those calls did
    stored,     \* components present in each location
    faults,     \* per invocation, its catalog calls that have raised
    error,      \* per invocation, the exception its thread raised last
    sessions,   \* per invocation, the sessions its thread has called through
    input,      \* the event (and catalog) a handler is called with
    output      \* what the handler returned, or the exception it raised

vars == <<lpc, request, response, tpc, components, index, jobs, jobLog,
          created, jobId, ops, attempted, outcomes, stored, faults, error,
          sessions, input, output>>

\* The variables of the handlers that answer at once (discover, the form
\* of launch, the resolver called on its own).
hub == <<input, output>>
\* The variables of launch-with-values and of the transfer threads.
transfer == <<lpc, request, response, tpc, components, index, jobs, jobLog,
              created, jobId, ops, attempted, outcomes, stored, faults, error,
              sessions>>
NoInput == [handler |-> None]
NoOutput == [kind |-> None]

RECURSIVE Sum(_, _)
Sum(f, S) ==
    IF S = {} THEN 0
    ELSE LET x == CHOOSE y \in S : TRUE IN f[x] + Sum(f, S \ {x})

\* The outcomes of one catalog call: it returns (TRUE) or raises (FALSE).
CallOutcomes == IF Sum(faults, Inv) < MaxFaults THEN BOOLEAN ELSE {TRUE}
Count(i, ok) == faults' = [faults EXCEPT ![i] = IF ok THEN @ ELSE @ + 1]
\* The exception, if any, that a step of thread i raises.
Raise(i, raised, exception) ==
    error' = [error EXCEPT ![i] = IF raised THEN exception ELSE @]

\* Line 41: the session the action was built with; it handles the
\* discover and launch events.
ActionSession == <<"self.session", 0>>
\* Line 240: the session transfer_components opens for itself.
ThreadSession(i) == <<"Session", i>>
\* Lines 316-317: launch looks the two locations up with self.session.get
\* and hands these objects to transfer_components; a location's calls
\* (add_component, line 278) go through the session it was fetched from.
LocationSession == ActionSession
\* Thread i makes a call through session s.
Through(i, s) == sessions' = [sessions EXCEPT ![i] = @ \cup {s}]

\* No Job record in the catalog.
NoJob == [status |-> None, data |-> NoData]

NoRequest == [from_location |-> None, to_location |-> None,
              ignore_component_not_in_location |-> FALSE,
              ignore_location_errors |-> FALSE]

TransferInit ==
    /\ lpc = [i \in Inv |-> "waiting"]
    /\ request = [i \in Inv |-> NoRequest]
    /\ response = [i \in Inv |-> NoResponse]
    /\ tpc = [i \in Inv |-> "idle"]
    /\ components = [i \in Inv |-> <<>>]
    /\ index = [i \in Inv |-> 0]
    /\ jobs = [i \in Inv |-> NoJob]
    /\ jobLog = [i \in Inv |-> [status |-> <<>>, data |-> <<>>]]
    /\ created = [i \in Inv |-> 0]
    /\ jobId = [i \in Inv |-> 0]
    /\ ops = [i \in Inv |-> NoOps]
    /\ attempted = [i \in Inv |-> <<>>]
    /\ outcomes = [i \in Inv |-> <<>>]
    /\ stored = [l \in Locations |-> {}]
    /\ faults = [i \in Inv |-> 0]
    /\ error = [i \in Inv |-> None]
    /\ sessions = [i \in Inv |-> {}]

Init ==
    /\ TransferInit
    /\ input = NoInput
    /\ output = NoOutput

\* ---------------------------------------------------------------- launch
\* Faulty variant of SameLocation: two lookups never compare equal.
SameLocation_Never(from_location, to_location) == FALSE

\* Lines 316-318: both ids are looked up in the action's session and the
\* entities compared; entities are equal when their identities are.
SameLocation(from_location, to_location) == from_location = to_location

\* launch, lines 305-343: the same-location check and the spawn.
Launch(i) ==
    /\ lpc[i] = "waiting"
    /\ \A j \in Inv : j < i => lpc[j] = "returned"
    /\ \E src \in Locations, dst \in Locations, im \in BOOLEAN, ie \in BOOLEAN :
         /\ request' = [request EXCEPT ![i] =
                [from_location |-> src, to_location |-> dst,
                 ignore_component_not_in_location |-> im,
                 ignore_location_errors |-> ie]]
         /\ IF SameLocation(src, dst)
            THEN /\ response' = [response EXCEPT ![i] = SameLocationResponse]
                 /\ lpc' = [lpc EXCEPT ![i] = "returned"]
                 /\ tpc' = tpc
            ELSE /\ response' = response
                 /\ lpc' = [lpc EXCEPT ![i] = "spawned"]
                 /\ tpc' = [tpc EXCEPT ![i] = "create"]
    /\ UNCHANGED <<components, index, jobs, jobLog, created, jobId, ops,
                   attempted, outcomes, stored, faults, error>>
    /\ UNCHANGED sessions
    /\ UNCHANGED hub

ThreadEnded(i) == tpc[i] \in {"finished", "uncaught"}

\* launch, line 344, reached when the wrapper of _async returns.
LaunchReturn(i) ==
    /\ lpc[i] = "spawned"
    /\ AsyncMode = "start" \/ ThreadEnded(i)
    /\ response' = [response EXCEPT ![i] =
            IF AsyncMode = "inline" /\ tpc[i] = "uncaught"
            THEN RaisedResponse ELSE TransferringResponse]
    /\ lpc' = [lpc EXCEPT ![i] = "returned"]
    /\ UNCHANGED <<request, tpc, components, index, jobs, jobLog, created,
                   jobId, ops, attempted, outcomes, stored, faults, error>>
    /\ UNCHANGED sessions
    /\ UNCHANGED hub

\* ------------------------------------------------------ transfer thread
\* Lines 240-256: the private session, the Job and its first commit.  The
\* commit is outside the try: if it raises the thread dies.
CreateJob(i) ==
    /\ tpc[i] = "create"
    /\ \E ok \in CallOutcomes :
         /\ Count(i, ok)
         /\ Raise(i, ~ok, CommitError)
         /\ IF ok
            THEN /\ jobs' = [jobs EXCEPT ![i] =
                        [status |-> "running", data |-> GatheringData]]
                 /\ jobLog' = [jobLog EXCEPT ![i] =
                        [status |-> <<"running">>, data |-> <<GatheringData>>]]
                 /\ created' = [created EXCEPT ![i] = @ + 1]
                 /\ jobId' = [jobId EXCEPT ![i] = i]
                 /\ tpc' = [tpc EXCEPT ![i] = "resolve"]
            ELSE /\ UNCHANGED <<jobs, jobLog, created, jobId>>
                 /\ tpc' = [tpc EXCEPT ![i] = "uncaught"]
    /\ UNCHANGED <<lpc, request, response, components, index, ops, attempted,
                   outcomes, stored>>
    /\ Through(i, ThreadSession(i))
    /\ UNCHANGED hub

\* Faulty variant of Resolve: a resolver that raises is taken to have
\* found nothing.
Resolve_Swallows(i) ==
    /\ tpc[i] = "resolve"
    /\ \E ok \in CallOutcomes :
         /\ Count(i, ok)
         /\ Raise(i, ~ok, QueryError)
         /\ \E found \in (IF ok THEN SUBSET Components ELSE {{}}) :
                components' = [components EXCEPT ![i] = SetToList(found)]
         /\ tpc' = [tpc EXCEPT ![i] = "loop"]
    /\ UNCHANGED <<lpc, request, response, index, jobs, jobLog, created,
                   jobId, ops, attempted, outcomes, stored>>
    /\ Through(i, ThreadSession(i))
    /\ UNCHANGED hub

\* Lines 258-262: the resolver returns a duplicate-free list or raises.
Resolve(i) ==
    /\ tpc[i] = "resolve"
    /\ \E ok \in CallOutcomes :
         /\ Count(i, ok)
         /\ Raise(i, ~ok, QueryError)
         /\ IF ok
            THEN /\ \E found \in SUBSET Components :
                        components' = [components EXCEPT ![i] =
                                            SetToList(found)]
                 /\ tpc' = [tpc EXCEPT ![i] = "loop"]
            ELSE /\ components' = components
                 /\ tpc' = [tpc EXCEPT ![i] = "except"]
    /\ UNCHANGED <<lpc, request, response, index, jobs, jobLog, created,
                   jobId, ops, attempted, outcomes, stored>>
    /\ Through(i, ThreadSession(i))
    /\ UNCHANGED hub

\* Faulty variant of Persist: the job is kept on the action object, which
\* all threads share, so a commit writes the job created last.
Persist_SharedJob(i, ok, newOps) ==
    LET shared == CHOOSE j \in Inv :
                    created[j] = 1 /\ \A k \in Inv : created[k] = 1 => k <= j
    IN /\ jobs' = [jobs EXCEPT ![shared] = Commit(ok, @, newOps)]
       /\ jobLog' = [jobLog EXCEPT ![shared] =
              [status |-> IF ok /\ newOps.status # None
                          THEN Append(@.status, newOps.status) ELSE @.status,
               data |-> IF ok /\ newOps.data # NoData
                        THEN Append(@.data, newOps.data) ELSE @.data]]
       /\ ops' = [ops EXCEPT ![i] = IF ok THEN NoOps ELSE newOps]

\* The thread's session commits newOps: the job record and its log after
\* the call, and what stays recorded in the session.
Persist(i, ok, newOps) ==
    /\ jobs' = [jobs EXCEPT ![jobId[i]] = Commit(ok, @, newOps)]
    /\ jobLog' = [jobLog EXCEPT ![jobId[i]] =
            [status |-> IF ok /\ newOps.status # None
                        THEN Append(@.status, newOps.status) ELSE @.status,
             data |-> IF ok /\ newOps.data # NoData
                      THEN Append(@.data, newOps.data) ELSE @.data]]
    /\ ops' = [ops EXCEPT ![i] = IF ok THEN NoOps ELSE newOps]

\* Faulty variant of CommitProgress: the description is set but the
\* commit of line 275 is missing.
CommitProgress_NoCommit(i) ==
    /\ tpc[i] = "loop"
    /\ LoopStep(index[i], Len(components[i])) = "progress"
    /\ index' = [index EXCEPT ![i] = @ + 1]
    /\ ops' = [ops EXCEPT ![i].data =
                ProgressData(index[i] + 1, Len(components[i]))]
    /\ tpc' = [tpc EXCEPT ![i] = "copy"]
    /\ UNCHANGED <<lpc, request, response, components, created, jobId,
                   attempted, outcomes, stored, jobs, jobLog, faults, error>>
    /\ UNCHANGED sessions
    /\ UNCHANGED hub

\* Lines 264-275: the next component's description and its commit.
CommitProgress(i) ==
    /\ tpc[i] = "loop"
    /\ LoopStep(index[i], Len(components[i])) = "progress"
    /\ index' = [index EXCEPT ![i] = @ + 1]
    /\ \E ok \in CallOutcomes :
         /\ Count(i, ok)
         /\ Raise(i, ~ok, CommitError)
         /\ Persist(i, ok, [ops[i] EXCEPT
                !.data = ProgressData(index[i] + 1, Len(components[i]))])
         /\ tpc' = [tpc EXCEPT ![i] = IF ok THEN "copy" ELSE "except"]
    /\ UNCHANGED <<lpc, request, response, components, created, jobId,
                   attempted, outcomes, stored>>
    /\ Through(i, ThreadSession(i))
    /\ UNCHANGED hub

\* What add_component can do for component c going into location dst: a
\* component the location already holds is refused before anything is
\* read from the source.
PossibleOutcomes(c, dst) ==
    IF c \in stored[dst]
    THEN {ComponentInLocationError, LocationError, OtherError}
    ELSE {Copied, ComponentNotInLocationError, LocationError, OtherError}

\* Lines 277-292: one add_component call and the except clauses.
AddComponent(i) ==
    /\ tpc[i] = "copy"
    /\ LET c == components[i][index[i]]
           dst == request[i].to_location
       IN \E o \in PossibleOutcomes(c, dst) :
            /\ attempted' = [attempted EXCEPT ![i] = Append(@, c)]
            /\ outcomes' = [outcomes EXCEPT ![i] = Append(@, o)]
            /\ stored' = IF o = Copied
                         THEN [stored EXCEPT ![dst] = @ \cup {c}]
                         ELSE stored
            /\ tpc' = [tpc EXCEPT ![i] =
                    IF o = Copied THEN "loop"
                    ELSE IF HandleCopyError(o,
                              request[i].ignore_component_not_in_location,
                              request[i].ignore_location_errors) = "continue"
                         THEN "loop" ELSE "except"]
            /\ Raise(i, o # Copied /\ HandleCopyError(o,
                              request[i].ignore_component_not_in_location,
                              request[i].ignore_location_errors) = "raise", o)
    /\ UNCHANGED <<lpc, request, response, components, index, jobs, jobLog,
                   created, jobId, ops, faults>>
    /\ Through(i, LocationSession)
    /\ UNCHANGED hub

\* Faulty variant of TransferComplete: a statement after the commit of
\* 'done' raises inside the try.
TransferComplete_Raises == "except"

\* Line 297, the log call that follows the commit of 'done': it returns.
TransferComplete == "finished"

\* Lines 294-297: status 'done', its commit, and the closing log line.
CommitDone(i) ==
    /\ tpc[i] = "loop"
    /\ LoopStep(index[i], Len(components[i])) = "done"
    /\ \E ok \in CallOutcomes :
         /\ Count(i, ok)
         /\ Raise(i, ~ok, CommitError)
         /\ Persist(i, ok, [ops[i] EXCEPT !.status = "done"])
         /\ tpc' = [tpc EXCEPT ![i] = IF ok THEN TransferComplete ELSE "except"]
    /\ UNCHANGED <<lpc, request, response, components, index, created, jobId,
                   attempted, outcomes, stored>>
    /\ Through(i, ThreadSession(i))
    /\ UNCHANGED hub

\* Faulty variant of Rollback: the handler does not roll back.
Rollback_Keeps(recorded) == recorded

\* session.rollback(): drops every recorded operation.
Rollback(recorded) == NoOps

\* Faulty variant of TransferFailed: the handler is a 'finally' clause, so
\* it also runs after the commit of 'done'.
TransferFailed_Finally(i) ==
    /\ tpc[i] = "except" \/ (tpc[i] = "finished" /\ jobs[i].status = "done")
    /\ \E ok \in CallOutcomes :
         /\ Count(i, ok)
         /\ Raise(i, ~ok, CommitError)
         /\ Persist(i, ok, [Rollback(ops[i]) EXCEPT !.status = "failed"])
         /\ tpc' = [tpc EXCEPT ![i] = IF ok THEN "finished" ELSE "uncaught"]
    /\ UNCHANGED <<lpc, request, response, components, index, created, jobId,
                   attempted, outcomes, stored>>
    /\ Through(i, ThreadSession(i))
    /\ UNCHANGED hub

\* Lines 299-303: rollback, status 'failed' and its commit.  A commit that
\* raises here leaves the thread with an exception nobody catches.
TransferFailed(i) ==
    /\ tpc[i] = "except"
    /\ \E ok \in CallOutcomes :
         /\ Count(i, ok)
         /\ Raise(i, ~ok, CommitError)
         /\ Persist(i, ok, [Rollback(ops[i]) EXCEPT !.status = "failed"])
         /\ tpc' = [tpc EXCEPT ![i] = IF ok THEN "finished" ELSE "uncaught"]
    /\ UNCHANGED <<lpc, request, response, components, index, created, jobId,
                   attempted, outcomes, stored>>
    /\ Through(i, ThreadSession(i))
    /\ UNCHANGED hub

Next ==
    \E i \in Inv :
        \/ Launch(i)
        \/ LaunchReturn(i)
        \/ CreateJob(i)
        \/ Resolve(i)
        \/ CommitProgress(i)
        \/ AddComponent(i)
        \/ CommitDone(i)
        \/ TransferFailed(i)

Spec == Init /\ [][Next]_vars

\* ------------------------------------------------- handlers that answer
\* Longest selection an event carries.
MaxSelection == 2

\* SUPPORTED_ENTITY_TYPES, line 7.
SUPPORTED_ENTITY_TYPES == {"assetversion", "TypedContext", "Project", "Component"}
\* Entity types a selection can name; "task" stands for every other type.
EntityTypes == SUPPORTED_ENTITY_TYPES \cup {"task"}

\* Lines 26-28 and 77-83: the action descriptor.
ActionConfig ==
    [kind |-> "items",
     label |-> "Transfer Components [new]",
     description |-> "Transfer components between locations.",
     actionIdentifier |-> "transfer.components"]
\* A handler that returns None.
Nothing == [kind |-> "None"]

\* Faulty variant of discover: only the first item is looked at.
discover_FirstItem(selection) ==
    IF Len(selection) < 1 \/ selection[1].entityType \notin SUPPORTED_ENTITY_TYPES
    THEN Nothing
    ELSE ActionConfig

\* discover, lines 63-83, on data.get('selection', []).
discover(selection) ==
    IF Len(selection) # 1 \/ selection[1].entityType \notin SUPPORTED_ENTITY_TYPES
    THEN Nothing
    ELSE ActionConfig

\* Selections of at most n items drawn from items.
RECURSIVE Selections(_, _)
Selections(n, items) ==
    IF n = 0 THEN {<<>>}
    ELSE LET shorter == Selections(n - 1, items)
         IN shorter \cup {Append(sel, item) : sel \in shorter, item \in items}

\* A discover event: its data has a selection, or none.
DiscoverInputs ==
    {[handler |-> "discover", has_selection |-> TRUE, selection |-> sel] :
        sel \in Selections(MaxSelection,
                  {[entityType |-> t, entityId |-> "id"] : t \in EntityTypes})}
    \cup {[handler |-> "discover", has_selection |-> FALSE, selection |-> <<>>]}

\* The event hub calls discover with the event.
Discover ==
    /\ input.handler = "discover"
    /\ output = NoOutput
    /\ output' = discover(IF input.has_selection THEN input.selection ELSE <<>>)
    /\ UNCHANGED input
    /\ UNCHANGED transfer

\* excluded_locations, lines 30-36.
excluded_locations ==
    {"ftrack.origin", "ftrack.connect", "ftrack.server", "ftrack.unmanaged",
     "ftrack.review"}

\* Locations the catalog may hold: with and without an accessor, built in
\* or not, with and without a label, each with a priority of its own.
LocationPool ==
    {[id |-> "loc-1", name |-> "vault-A", label |-> "Vault A",
      accessor |-> TRUE, priority |-> 20],
     [id |-> "loc-2", name |-> "vault-B", label |-> "",
      accessor |-> TRUE, priority |-> 10],
     [id |-> "loc-3", name |-> "ftrack.server", label |-> "",
      accessor |-> TRUE, priority |-> 15],
     [id |-> "loc-4", name |-> "vault-C", label |-> "Vault C",
      accessor |-> FALSE, priority |-> 5],
     [id |-> "loc-5", name |-> "vault-D", label |-> "",
      accessor |-> TRUE, priority |-> 30]}

\* sorted(locations, key=priority), line 97.
RECURSIVE SortByPriority(_)
SortByPriority(S) ==
    IF S = {} THEN <<>>
    ELSE LET first == CHOOSE l \in S : \A m \in S : l.priority <= m.priority
         IN <<first>> \o SortByPriority(S \ {first})

\* Lines 100-104: the built-in locations are dropped from the list.
RECURSIVE NotExcluded(_)
NotExcluded(locs) ==
    IF locs = <<>> THEN <<>>
    ELSE IF Head(locs).name \in excluded_locations
         THEN NotExcluded(Tail(locs))
         ELSE <<Head(locs)>> \o NotExcluded(Tail(locs))

\* Lines 107-113: label (or name when the label is empty) and id.
locations_options(locs) ==
    [n \in 1..Len(locs) |->
        [label |-> IF locs[n].label # "" THEN locs[n].label ELSE locs[n].name,
         value |-> locs[n].id]]

Raised(exception) == [kind |-> "raised", exception |-> exception]

\* interface, lines 86-157, for an event without values: the form, or the
\* IndexError of locations_options[0] and locations_options[1].
interface(catalog) ==
    LET withAccessor == {l \in catalog : l.accessor}
        options == locations_options(NotExcluded(SortByPriority(withAccessor)))
    IN IF Len(options) < 2
       THEN Raised("IndexError")
       ELSE [kind |-> "form",
             options |-> options,
             from_location |-> options[1].value,
             to_location |-> options[2].value,
             ignore_component_not_in_location |-> "false",
             ignore_location_errors |-> "false"]

\* launch, lines 308-316 and 347-351, for an event whose values are
\* absent or an empty mapping: a values key that is present sends launch
\* to values['from_location'].
launch_without_values(has_values_key, catalog) ==
    IF has_values_key THEN Raised("KeyError") ELSE interface(catalog)

\* A launch event that carries no submitted values, and the catalog.
FormInputs ==
    {[handler |-> "launch", has_values_key |-> k, catalog |-> c] :
        k \in BOOLEAN, c \in SUBSET LocationPool}

\* The event hub calls launch with such an event.
LaunchForm ==
    /\ input.handler = "launch"
    /\ output = NoOutput
    /\ output' = launch_without_values(input.has_values_key, input.catalog)
    /\ UNCHANGED input
    /\ UNCHANGED transfer

\* The catalog the resolver queries: four components of three versions;
\* a version's asset hangs under a context or straight under a project.
CatalogComponents == {1, 2, 3, 4}
version_id == (1 :> "v1") @@ (2 :> "v1") @@ (3 :> "v2") @@ (4 :> "v3")
\* version.asset.parent.id
asset_parent == ("v1" :> "c2") @@ ("v2" :> "c1") @@ ("v3" :> "p2")
\* parent.ancestors.id
ancestors == ("c2" :> {"c1"}) @@ ("c1" :> {}) @@ ("p2" :> {})
\* parent.project.id
parent_project == ("c2" :> {"p1"}) @@ ("c1" :> {"p1"}) @@ ("p2" :> {})

\* Items a selection can hold.
SelectionPool ==
    {[entityType |-> "Project", entityId |-> e] : e \in {"p1", "p2"}}
    \cup {[entityType |-> "TypedContext", entityId |-> e] : e \in {"c1", "c2"}}
    \cup {[entityType |-> "assetversion", entityId |-> e] : e \in {"v1", "v3"}}
    \cup {[entityType |-> "Component", entityId |-> e] : e \in {2, 3}}
    \cup {[entityType |-> "task", entityId |-> "t1"]}

\* Lines 162-169: the ids of the selected entities of one type;
\* get_filter_string (line 18-20) quotes and joins them for 'in (...)'.
entity_groups(entities, entity_type) ==
    {entities[n].entityId :
        n \in {m \in 1..Len(entities) : entities[m].entityType = entity_type}}

\* session.query(... and component_locations.location_id is location):
\* the components of the catalog present in location that satisfy the
\* filter of bucket.
Query(bucket, ids, location, present) ==
    {c \in CatalogComponents :
        /\ location \in present[c]
        /\ CASE bucket = "Project" ->
                   \/ parent_project[asset_parent[version_id[c]]] \cap ids # {}
                   \/ asset_parent[version_id[c]] \in ids
             [] bucket = "TypedContext" ->
                   \/ ancestors[asset_parent[version_id[c]]] \cap ids # {}
                   \/ asset_parent[version_id[c]] \in ids
             [] bucket = "assetversion" -> version_id[c] \in ids
             [] bucket = "Component" -> c \in ids}

\* The buckets in the order lines 174-202 test them.
Buckets == <<"Project", "TypedContext", "assetversion", "Component">>

\* Faulty variant of get_components_in_location: an if/elif chain, so only
\* the first bucket that is not empty is queried.
get_components_in_location_FirstBucket(entities, location, present) ==
    LET filled == {n \in 1..Len(Buckets) :
                        entity_groups(entities, Buckets[n]) # {}}
        first == {n \in filled : \A m \in filled : n <= m}
    IN SetToList(UNION {Query(Buckets[n], entity_groups(entities, Buckets[n]),
                              location, present) : n \in first})

\* get_components_in_location, lines 159-218: one query per bucket that is
\* not empty, the results gathered in a set, the set returned as a list.
get_components_in_location(entities, location, present) ==
    LET queries == {n \in 1..Len(Buckets) :
                        entity_groups(entities, Buckets[n]) # {}}
    IN SetToList(UNION {Query(Buckets[n], entity_groups(entities, Buckets[n]),
                              location, present) : n \in queries})

\* A call of the resolver: the selection, the source location and, for
\* each component, the locations that hold it.
ResolverInputs ==
    {[handler |-> "resolver", entities |-> sel, location |-> loc,
      present |-> pr] :
        sel \in Selections(MaxSelection, SelectionPool),
        loc \in Locations,
        pr \in [CatalogComponents -> SUBSET Locations]}

\* transfer_components calls the resolver, line 258.
GetComponents ==
    /\ input.handler = "resolver"
    /\ output = NoOutput
    /\ output' = [kind |-> "components",
                  list |-> get_components_in_location(
                              input.entities, input.location, input.present)]
    /\ UNCHANGED input
    /\ UNCHANGED transfer

HandlersInit ==
    /\ TransferInit
    /\ input \in DiscoverInputs \cup FormInputs \cup ResolverInputs
    /\ output = NoOutput

HandlersNext == Discover \/ LaunchForm \/ GetComponents

SpecHandlers == HandlersInit /\ [][HandlersNext]_vars

\* ------------------------------------------------ plugin and locations
\* Strings are sequences of characters; the empty string is <<>>, which
\* is also the empty dict (a function with no key).
EmptyString == <<>>
EmptyDict == <<>>

\* dict.setdefault(key, default), lines 38-40 and 67: the dict with the
\* key added when it was missing.
setdefault(dict, key, default) ==
    IF key \in DOMAIN dict THEN dict
    ELSE [k \in DOMAIN dict \cup {key} |-> IF k = key THEN default ELSE dict[k]]

\* dict[key] = value.
setitem(dict, key, value) ==
    [k \in DOMAIN dict \cup {key} |-> IF k = key THEN value ELSE dict[k]]

\* Line 12.
FTRACK_EVENT_PLUGIN_PATH == "FTRACK_EVENT_PLUGIN_PATH"
\* Lines 13-16.
FTRACK_EVENT_PLUGIN_TOPICS ==
    {"ftrack.connect.application.launch", "ftrack.action.launch"}
\* Line 18, as str(path): one path, opaque.
LOCATION_PLUGIN_PATH == <<"hook/locations">>
\* os.pathsep.
pathsep == <<":">>

\* Faulty variant of append_path_to_environment: the path is put in front
\* of the current value.
append_path_to_environment_Prepend(environment, key, path) ==
    LET current_value == IF key \in DOMAIN environment
                         THEN environment[key] ELSE EmptyString
    IN setitem(environment, key,
               IF current_value # EmptyString
               THEN path \o pathsep \o current_value
               ELSE path)

\* append_path_to_environment, lines 20-28.
append_path_to_environment(environment, key, path) ==
    LET current_value == IF key \in DOMAIN environment
                         THEN environment[key] ELSE EmptyString
    IN setitem(environment, key,
               IF current_value # EmptyString
               THEN current_value \o pathsep \o path
               ELSE path)

\* add_path_to_event_plugins, lines 31-47: the event after the call.
add_path_to_event_plugins(event, path) ==
    LET withData == setdefault(event, "data", EmptyDict)
        event_data == setdefault(withData["data"], "options", EmptyDict)
        options == setdefault(event_data["options"], "env", EmptyDict)
        env == append_path_to_environment(options["env"],
                                          FTRACK_EVENT_PLUGIN_PATH, path)
    IN setitem(withData, "data",
               setitem(event_data, "options", setitem(options, "env", env)))

\* Values an environment variable of a launch event can have.
PathValues == {EmptyString, <<"/old">>, <<"/a", ":", "/b">>}
\* The env dicts, options dicts and data dicts an event can carry: each
\* with or without the key the hook looks for, and with or without a key
\* of its own.
EnvDicts ==
    UNION {[keys -> PathValues] :
              keys \in SUBSET {FTRACK_EVENT_PLUGIN_PATH, "PATH"}}
OptionsDicts ==
    {EmptyDict, [launch_args |-> <<"-v">>]}
    \cup {[env |-> e] : e \in EnvDicts}
    \cup {[env |-> e, launch_args |-> <<"-v">>] : e \in EnvDicts}
DataDicts ==
    {EmptyDict, [selection |-> <<"sel">>]}
    \cup {[options |-> o] : o \in OptionsDicts}
    \cup {[options |-> o, selection |-> <<"sel">>] : o \in OptionsDicts}
\* The launch events the hook of lines 103-110 is called with.
LaunchEvents ==
    {[topic |-> t] : t \in FTRACK_EVENT_PLUGIN_TOPICS}
    \cup {[topic |-> t, data |-> d] :
             t \in FTRACK_EVENT_PLUGIN_TOPICS, d \in DataDicts}
AddPathInputs == {[handler |-> "add_path", event |-> e] : e \in LaunchEvents}

\* The event hub calls the subscribed partial of lines 104-110.
AddPath ==
    /\ input.handler = "add_path"
    /\ output = NoOutput
    /\ output' = [kind |-> "event",
                  event |-> add_path_to_event_plugins(input.event,
                                                      LOCATION_PLUGIN_PATH)]
    /\ UNCHANGED input
    /\ UNCHANGED transfer

\* str.lower() on the characters host names are written with.
LowerChar(ch) ==
    CASE ch = "W" -> "w"
      [] ch = "S" -> "s"
      [] OTHER -> ch
lower(string) == [n \in 1..Len(string) |-> LowerChar(string[n])]

CONFIGURE_LOCATION == "ftrack.api.session.configure-location"
\* What socket.gethostname() does: it returns a name, or raises.
Hostnames == {<<"W", "S", "1">>, <<"w", "s", "1">>, <<"w", "s", "2">>}
HostnameLookups ==
    {[raised |-> FALSE, name |-> h] : h \in Hostnames}
    \cup {[raised |-> TRUE, name |-> EmptyString]}

\* Faulty variant of publish_with_hostname: the host name is not
\* lowercased.
publish_with_hostname_AsIs(event, args, gethostname) ==
    LET patched ==
          IF event["topic"] = CONFIGURE_LOCATION /\ ~gethostname.raised
          THEN LET withSource == setdefault(event, "source", EmptyDict)
               IN setitem(withSource, "source",
                          setitem(withSource["source"], "hostname",
                                  gethostname.name))
          ELSE event
    IN <<[event |-> patched, args |-> args]>>

\* publish_with_hostname, lines 61-75: the calls of original_publish, each
\* with the event and arguments it is given.
publish_with_hostname(event, args, gethostname) ==
    LET patched ==
          IF event["topic"] = CONFIGURE_LOCATION /\ ~gethostname.raised
          THEN LET withSource == setdefault(event, "source", EmptyDict)
               IN setitem(withSource, "source",
                          setitem(withSource["source"], "hostname",
                                  lower(gethostname.name)))
          ELSE event
    IN <<[event |-> patched, args |-> args]>>

\* The source of an event: no hostname, or one (empty, this machine's in
\* either case, another machine's), next to the user.
SourceDicts ==
    {EmptyDict, [user |-> <<"u">>]}
    \cup {[hostname |-> h] : h \in Hostnames \cup {EmptyString}}
    \cup {[hostname |-> h, user |-> <<"u">>] : h \in Hostnames \cup {EmptyString}}
\* Events published through the patched hub.
PublishedEvents ==
    LET topics == {CONFIGURE_LOCATION, "ftrack.action.launch"}
    IN {[topic |-> t] : t \in topics}
       \cup {[topic |-> t, source |-> src] : t \in topics, src \in SourceDicts}
PublishInputs ==
    {[handler |-> "publish", event |-> e, args |-> a, gethostname |-> g] :
        e \in PublishedEvents, a \in {<<>>, <<"synchronous">>},
        g \in HostnameLookups}

\* session.event_hub.publish(event, ...) after line 78.
Publish ==
    /\ input.handler = "publish"
    /\ output = NoOutput
    /\ output' = [kind |-> "published",
                  calls |-> publish_with_hostname(input.event, input.args,
                                                  input.gethostname)]
    /\ UNCHANGED input
    /\ UNCHANGED transfer

\* str.strip(): leading and trailing blanks removed.
RECURSIVE lstrip(_)
lstrip(string) ==
    IF string # EmptyString /\ Head(string) = " "
    THEN lstrip(Tail(string)) ELSE string
RECURSIVE rstrip(_)
rstrip(string) ==
    IF string # EmptyString /\ string[Len(string)] = " "
    THEN rstrip(SubSeq(string, 1, Len(string) - 1)) ELSE string
strip(string) == lstrip(rstrip(string))

\* What a session's locations have been given by a hook: the names passed
\* to session.ensure, in call order, and per location name the accessor,
\* structure and priority set on it; raised is an exception that ended
\* the hook.
NoSessionChange == [ensured |-> <<>>, configured |-> EmptyDict, raised |-> None]

\* os.getenv of a variable: unset (None), or its value.
Unset == [set |-> FALSE, value |-> EmptyString]
EnvValues(values) == {Unset} \cup {[set |-> TRUE, value |-> v] : v \in values}
\* Values the variables of a configured machine hold.
Value3 == [set |-> TRUE, value |-> <<"s", "3", " ">>]
ValueP == [set |-> TRUE, value |-> <<"p">>]
ValueU == [set |-> TRUE, value |-> <<"u">>]
ValueK == [set |-> TRUE, value |-> <<"k">>]
\* bool(os.getenv(...)), and (os.getenv(...) or '').
truthy(variable) == variable.set /\ variable.value # EmptyString
or_empty(variable) == IF variable.set THEN variable.value ELSE EmptyString

\* _get_s3_api_endpoint, lines 26-35.
get_s3_api_endpoint(env) ==
    IF truthy(env.S3_MINIO_ENDPOINT_URL)
    THEN env.S3_MINIO_ENDPOINT_URL
    ELSE env.S3_MINIO_API_ENDPOINT_URL

\* Line 122.
S3_PRIORITY == 10

\* Faulty variant of session_add_s3_location: the credentials are not
\* looked at.
session_add_s3_location_NoCredentials(env) ==
    LET location_name == strip(or_empty(env.S3_LOCATION_NAME))
        bucket == strip(or_empty(env.S3_BUCKET))
        endpoint == get_s3_api_endpoint(env)
    IN IF location_name = EmptyString THEN NoSessionChange
       ELSE IF bucket = EmptyString THEN NoSessionChange
       ELSE IF ~truthy(endpoint) THEN NoSessionChange
       ELSE [ensured |-> <<location_name>>,
             configured |-> setitem(EmptyDict, location_name,
                 [accessor |-> [type |-> "S3Accessor", bucket |-> bucket,
                                endpoint_url |-> endpoint.value],
                  structure |-> "StandardStructure",
                  priority |-> S3_PRIORITY]),
             raised |-> None]

\* session_add_s3_location, lines 64-127.
session_add_s3_location(env) ==
    LET location_name == strip(or_empty(env.S3_LOCATION_NAME))
        bucket == strip(or_empty(env.S3_BUCKET))
        endpoint == get_s3_api_endpoint(env)
        has_key == truthy(env.AWS_ACCESS_KEY_ID)
        has_profile == truthy(env.AWS_PROFILE)
    IN IF location_name = EmptyString THEN NoSessionChange
       ELSE IF bucket = EmptyString THEN NoSessionChange
       ELSE IF ~truthy(endpoint) THEN NoSessionChange
       ELSE IF ~(has_key \/ has_profile) THEN NoSessionChange
       ELSE [ensured |-> <<location_name>>,
             configured |-> setitem(EmptyDict, location_name,
                 [accessor |-> [type |-> "S3Accessor", bucket |-> bucket,
                                endpoint_url |-> endpoint.value],
                  structure |-> "StandardStructure",
                  priority |-> S3_PRIORITY]),
             raised |-> None]

\* The environments the S3 hook can run in.
S3Environments ==
    [S3_LOCATION_NAME : EnvValues({EmptyString, <<" ">>, <<"s", "3", " ">>}),
     S3_BUCKET : EnvValues({EmptyString, <<"p">>}),
     S3_MINIO_ENDPOINT_URL : EnvValues({EmptyString, <<"u">>}),
     S3_MINIO_API_ENDPOINT_URL : EnvValues({EmptyString, <<"v">>}),
     AWS_ACCESS_KEY_ID : EnvValues({EmptyString, <<"k">>}),
     AWS_PROFILE : EnvValues({EmptyString, <<"d">>})]
AddS3Inputs == {[handler |-> "session_add_s3_location", env |-> e] :
                    e \in S3Environments}

\* configure_s3_location calls session_add_s3_location, line 162.
AddS3Location ==
    /\ input.handler = "session_add_s3_location"
    /\ output = NoOutput
    /\ output' = [kind |-> "session",
                  session |-> session_add_s3_location(input.env)]
    /\ UNCHANGED input
    /\ UNCHANGED transfer

\* Longest location mapping (number of entries of the YAML file).
MaxEntries == 2

\* sys.platform.
platform == "linux"

\* A value of the YAML file: null, or the value.
Null == [null |-> TRUE, value |-> EmptyDict]
Value(v) == [null |-> FALSE, value |-> v]

\* The walk of session_add_user_location, lines 101-120, from entry n on:
\* counter is the state of the itertools.count() named index.
RECURSIVE add_user_locations(_, _, _, _)
add_user_locations(entries, n, counter, session) ==
    IF n > Len(entries) THEN session
    ELSE LET location_name == strip(entries[n].name)
             location_data == entries[n].data
             ensured == [session EXCEPT !.ensured = Append(@, location_name)]
         IN IF location_name = EmptyString
            THEN add_user_locations(entries, n + 1, counter, session)
            ELSE IF "prefix" \in DOMAIN location_data
                    /\ location_data["prefix"].null
            \* line 112: None has no get
            THEN [ensured EXCEPT !.raised = "AttributeError"]
            ELSE LET prefix_data ==
                       IF "prefix" \in DOMAIN location_data
                       THEN location_data["prefix"].value ELSE EmptyDict
                     location_path ==
                       IF platform \in DOMAIN prefix_data
                       THEN prefix_data[platform] ELSE EmptyString
                 IN IF location_path = EmptyString
                    THEN add_user_locations(entries, n + 1, counter, ensured)
                    ELSE add_user_locations(entries, n + 1, counter + 1,
                           [ensured EXCEPT !.configured =
                               setitem(@, location_name,
                                 [accessor |-> [type |-> "DiskAccessor",
                                                prefix |-> location_path],
                                  structure |-> "StandardStructure",
                                  priority |->
                                    IF "priority" \in DOMAIN location_data
                                    THEN location_data["priority"]
                                    ELSE counter])])

\* session_add_user_location, lines 91-120; location_setup is the dict's
\* items in their order.
session_add_user_location(location_setup) ==
    add_user_locations(location_setup, 1, 0, NoSessionChange)

\* Names, prefix values and data of the entries of a location mapping.
LocationNames == {EmptyString, <<" ">>, <<"a">>, <<"a", " ">>, <<"b">>}
PrefixValues ==
    {Null, Value(EmptyDict), Value([linux |-> EmptyString]),
     Value([linux |-> <<"/mnt">>]), Value([win32 |-> <<"X:">>]),
     Value([linux |-> <<"/mnt">>, win32 |-> <<"X:">>])}
LocationData ==
    {EmptyDict, [prefix |-> Value([linux |-> <<"/mnt">>]), priority |-> 5]}
    \cup {[prefix |-> pv] : pv \in PrefixValues}
\* The mappings of at most n entries over names and data: a dict has
\* each key once.
RECURSIVE Mappings(_, _, _)
Mappings(n, names, data) ==
    IF n = 0 THEN {<<>>}
    ELSE LET shorter == Mappings(n - 1, names, data)
         IN shorter \cup
            {Append(m, [name |-> nm, data |-> d]) :
                m \in shorter,
                nm \in names,
                d \in data}
UniqueKeys(mapping) ==
    \A m \in 1..Len(mapping) : \A n \in 1..Len(mapping) :
        mapping[m].name = mapping[n].name => m = n
AddUserInputs ==
    {[handler |-> "session_add_user_location", location_setup |-> m] :
        m \in {mp \in Mappings(MaxEntries, LocationNames, LocationData) :
                  UniqueKeys(mp)}}

\* configure_locations calls session_add_user_location, line 167.
AddUserLocation ==
    /\ input.handler = "session_add_user_location"
    /\ output = NoOutput
    /\ output' = [kind |-> "session",
                  session |-> session_add_user_location(input.location_setup)]
    /\ UNCHANGED input
    /\ UNCHANGED transfer

\* The loop of load_location_config, lines 73-86, from entry n on.
RECURSIVE clean_locations(_, _, _)
clean_locations(raw_locations, n, cleaned_locations) ==
    IF n > Len(raw_locations) THEN cleaned_locations
    ELSE LET raw_name == raw_locations[n].name
             location_data == raw_locations[n].data
             name == strip(IF raw_name.null THEN EmptyString ELSE raw_name.value)
         IN IF name = EmptyString
            THEN clean_locations(raw_locations, n + 1, cleaned_locations)
            ELSE clean_locations(raw_locations, n + 1,
                   setitem(cleaned_locations, name,
                           IF location_data.null THEN EmptyDict
                           ELSE location_data.value))

\* load_location_config, lines 70-89, on the 'locations' mapping that the
\* rendered YAML holds.
load_location_config(raw_locations) ==
    clean_locations(raw_locations, 1, EmptyDict)

\* Keys and values of the 'locations' mapping of a YAML file.
RawNames == {Null} \cup {Value(nm) : nm \in LocationNames}
RawData == {Null, Value(EmptyDict),
            Value([prefix |-> Value([linux |-> <<"/mnt">>])])}
LoadConfigInputs ==
    {[handler |-> "load_location_config", raw_locations |-> m] :
        m \in {mp \in Mappings(MaxEntries, RawNames, RawData) : UniqueKeys(mp)}}

\* register, line 197.
LoadLocationConfig ==
    /\ input.handler = "load_location_config"
    /\ output = NoOutput
    /\ output' = [kind |-> "locations",
                  locations |-> load_location_config(input.raw_locations)]
    /\ UNCHANGED input
    /\ UNCHANGED transfer

\* Faulty variant of configure_locations: the host names are compared as
\* they are written.
configure_locations_CaseSensitive(event, current, location_setup) ==
    LET current_hostname == current
        event_source == IF "source" \in DOMAIN event
                        THEN event["source"] ELSE EmptyDict
        event_hostname == IF "hostname" \in DOMAIN event_source
                          THEN event_source["hostname"] ELSE EmptyString
    IN IF event_hostname # EmptyString /\ event_hostname # current_hostname
       THEN [skipped |-> TRUE, session |-> NoSessionChange]
       ELSE [skipped |-> FALSE,
             session |-> session_add_user_location(location_setup)]

\* configure_locations, lines 122-171, as register subscribes it (with
\* its location_setup); current is what get_hostname() returns.
configure_locations(event, current, location_setup) ==
    LET current_hostname == lower(current)
        event_source == IF "source" \in DOMAIN event
                        THEN event["source"] ELSE EmptyDict
        event_hostname == lower(IF "hostname" \in DOMAIN event_source
                                THEN event_source["hostname"] ELSE EmptyString)
    IN IF event_hostname # EmptyString /\ event_hostname # current_hostname
       THEN [skipped |-> TRUE, session |-> NoSessionChange]
       ELSE [skipped |-> FALSE,
             session |-> session_add_user_location(location_setup)]

\* configure_s3_location, lines 130-162; current is what
\* socket.gethostname() returns.
configure_s3_location(event, current, env) ==
    LET current_hostname == lower(current)
        event_source == IF "source" \in DOMAIN event
                        THEN event["source"] ELSE EmptyDict
        event_hostname == lower(IF "hostname" \in DOMAIN event_source
                                THEN event_source["hostname"] ELSE EmptyString)
    IN IF event_hostname # EmptyString /\ event_hostname # current_hostname
       THEN [skipped |-> TRUE, session |-> NoSessionChange]
       ELSE [skipped |-> FALSE, session |-> session_add_s3_location(env)]

\* The configure-location events a hook receives.
ConfigureEvents ==
    {[topic |-> CONFIGURE_LOCATION]}
    \cup {[topic |-> CONFIGURE_LOCATION, source |-> src] : src \in SourceDicts}
\* Location mappings and environments that give the hooks work to do, and
\* one of each that gives none.
ConfiguredSetups ==
    {<<>>,
     <<[name |-> <<"a">>, data |-> [prefix |-> Value([linux |-> <<"/mnt">>])]]>>,
     <<[name |-> <<"b">>, data |-> EmptyDict],
       [name |-> <<"a">>, data |-> [prefix |-> Value([linux |-> <<"/mnt">>]),
                                   priority |-> 5]]>>}
ConfiguredEnvironments ==
    {[S3_LOCATION_NAME |-> Value3, S3_BUCKET |-> ValueP,
      S3_MINIO_ENDPOINT_URL |-> ValueU, S3_MINIO_API_ENDPOINT_URL |-> Unset,
      AWS_ACCESS_KEY_ID |-> ValueK, AWS_PROFILE |-> Unset],
     [S3_LOCATION_NAME |-> Unset, S3_BUCKET |-> Unset,
      S3_MINIO_ENDPOINT_URL |-> Unset, S3_MINIO_API_ENDPOINT_URL |-> Unset,
      AWS_ACCESS_KEY_ID |-> Unset, AWS_PROFILE |-> Unset]}
ConfigureInputs ==
    {[handler |-> "configure_locations", event |-> e, current |-> h,
      location_setup |-> m] :
        e \in ConfigureEvents, h \in Hostnames, m \in ConfiguredSetups}
    \cup {[handler |-> "configure_s3_location", event |-> e, current |-> h,
           env |-> v] :
        e \in ConfigureEvents, h \in Hostnames, v \in ConfiguredEnvironments}

\* The event hub calls the partial subscribed at lines 199-207.
ConfigureLocations ==
    /\ input.handler = "configure_locations"
    /\ output = NoOutput
    /\ output' = [kind |-> "configured"] @@
                 configure_locations(input.event, input.current,
                                     input.location_setup)
    /\ UNCHANGED input
    /\ UNCHANGED transfer

\* The event hub calls the partial subscribed at lines 170-176.
ConfigureS3Location ==
    /\ input.handler = "configure_s3_location"
    /\ output = NoOutput
    /\ output' = [kind |-> "configured"] @@
                 configure_s3_location(input.event, input.current, input.env)
    /\ UNCHANGED input
    /\ UNCHANGED transfer

PluginsInit ==
    /\ TransferInit
    /\ input \in AddPathInputs \cup PublishInputs \cup AddS3Inputs
                \cup AddUserInputs \cup LoadConfigInputs \cup ConfigureInputs
    /\ output = NoOutput

PluginsNext ==
    \/ AddPath \/ Publish \/ AddS3Location \/ AddUserLocation
    \/ LoadLocationConfig \/ ConfigureLocations \/ ConfigureS3Location

SpecPlugins == PluginsInit /\ [][PluginsNext]_vars

\* ================================================================ claims
Last(sq) == sq[Len(sq)]
IgnoreMissing(i) == request[i].ignore_component_not_in_location
IgnoreErrors(i) == request[i].ignore_location_errors
\* transfer_components has returned to the thread's run loop.
Returned(i) == tpc[i] = "finished"
\* The thread is past the copy loop: in the handler, returned, or dead.
LeftLoop(i) == tpc[i] \in {"except", "finished", "uncaught"}
\* The resolver has returned its list to invocation i.
Resolved(i) == tpc[i] \in {"loop", "copy"} \/ attempted[i] # <<>>
                 \/ (LeftLoop(i) /\ faults[i] = 0)
\* The batch stopped at its k-th copy: nothing after it was attempted, the
\* job is never 'done', and it is 'failed' once transfer_components returns.
AbortedAt(i, k) ==
    /\ Len(attempted[i]) = k
    /\ LeftLoop(i)
    /\ jobs[i].status # "done"
    /\ Returned(i) => jobs[i].status = "failed"

\* C1: every invocation has one Job record created; the statuses persisted
\* for it are 'running', then at most one of 'done' and 'failed', and
\* nothing after that; when transfer_components returns the terminal
\* status has been persisted.
C1_JobStatusOnce ==
    \A i \in Inv :
        /\ created[i] <= 1
        /\ tpc[i] \in {"resolve", "loop", "copy", "except", "finished"}
              => created[i] = 1
        /\ created[i] = 0 <=> jobLog[i].status = <<>>
        /\ jobLog[i].status \in {<<>>, <<"running">>, <<"running", "done">>,
                                 <<"running", "failed">>}
        /\ jobLog[i].status # <<>> => jobs[i].status = Last(jobLog[i].status)
        /\ Returned(i) => Len(jobLog[i].status) = 2

\* C1 witness: the commit of 'done' raised after every copy had succeeded,
\* and the handler then persisted 'failed'.
C1_Witness ==
    \E i \in Inv :
        /\ Returned(i)
        /\ jobLog[i].status = <<"running", "failed">>
        /\ Len(components[i]) = MaxComp
        /\ outcomes[i] = [k \in 1..MaxComp |-> Copied]

\* C2: when the k-th copy raises component-not-in-source and neither
\* ignore flag is set, add_component is called k times in all and the job
\* ends 'failed'.
C2_NotInSourceAborts ==
    \A i \in Inv : \A k \in 1..Len(outcomes[i]) :
        ( /\ outcomes[i][k] = ComponentNotInLocationError
          /\ ~IgnoreMissing(i)
          /\ ~IgnoreErrors(i) )
        => AbortedAt(i, k)

\* C2 witness: the first of two components is missing, the job is failed
\* and the second was never tried.
C2_Witness ==
    \E i \in Inv :
        /\ Len(components[i]) = 2
        /\ outcomes[i] = <<ComponentNotInLocationError>>
        /\ ~IgnoreMissing(i) /\ ~IgnoreErrors(i)
        /\ Returned(i)
        /\ jobs[i].status = "failed"
        /\ Len(attempted[i]) = 1

\* The errors the flags of invocation i make recoverable, as section 4.2
\* of the specification lists them.
Recoverable(i, o) ==
    \/ o = Copied
    \/ o = ComponentInLocationError
    \/ o = ComponentNotInLocationError /\ (IgnoreMissing(i) \/ IgnoreErrors(i))
    \/ o = LocationError /\ IgnoreErrors(i)

CopyStep(i, o) == outcomes'[i] = Append(outcomes[i], o)

\* C4: a copy that raises component-already-in-target changes nothing in
\* the target and sends the loop on to the next component whatever the
\* flags; a run whose resolved components are all already in the target
\* ends 'done' (its catalog calls returning) with each attempted once.
C4_AlreadyInTargetRun ==
    \A i \in Inv :
        ( /\ faults[i] = 0
          /\ Returned(i)
          /\ \A k \in 1..Len(outcomes[i]) :
                outcomes[i][k] = ComponentInLocationError )
        => /\ jobs[i].status = "done"
           /\ attempted[i] = components[i]
C4_AlreadyInTargetStep ==
    \A i \in Inv :
        CopyStep(i, ComponentInLocationError)
        => /\ tpc'[i] = "loop"
           /\ stored' = stored
C5_OtherLocationError ==
    \A i \in Inv : \A k \in 1..Len(outcomes[i]) :
        outcomes[i][k] = LocationError
        => IF IgnoreErrors(i)
           THEN (k = Len(outcomes[i]) /\ faults[i] = 0)
                => /\ tpc[i] \in {"loop", "copy", "finished"}
                   /\ jobs[i].status # "failed"
           ELSE AbortedAt(i, k)

\* C5 witness: ignore-missing set, ignore-errors unset, the first of two
\* copies raises a location error and the job is failed after one attempt.
C5_Witness ==
    \E i \in Inv :
        /\ IgnoreMissing(i) /\ ~IgnoreErrors(i)
        /\ Len(components[i]) = 2
        /\ outcomes[i] = <<LocationError>>
        /\ Returned(i)
        /\ jobs[i].status = "failed"

C8_SameLocationRejected ==
    \A i \in Inv :
        (lpc[i] # "waiting" /\ request[i].from_location = request[i].to_location)
        => /\ lpc[i] = "returned"
           /\ response[i] = SameLocationResponse
           /\ tpc[i] = "idle"
           /\ created[i] = 0
           /\ jobs[i] = NoJob

\* C8 witness: a same-location launch has been answered.
C8_Witness ==
    \E i \in Inv :
        /\ lpc[i] = "returned"
        /\ request[i].from_location = "vault-A"
        /\ request[i].to_location = "vault-A"
        /\ response[i] = SameLocationResponse

\* C9: once launch has spawned the transfer it can return its
\* acknowledgement at any moment, wherever the transfer thread stands.
C9_LaunchDoesNotWait ==
    \A i \in Inv : lpc[i] = "spawned" => ENABLED LaunchReturn(i)

\* C9 witness: the acknowledgement is out while the job is still running,
\* and another one while the job does not exist yet.
C9_Witness ==
    \E i \in Inv : \E j \in Inv :
        /\ lpc[i] = "returned" /\ response[i] = TransferringResponse
        /\ tpc[i] = "copy" /\ jobs[i].status = "running"
        /\ lpc[j] = "returned" /\ response[j] = TransferringResponse
        /\ tpc[j] = "create" /\ jobs[j] = NoJob

\* C10: launch never hands an exception of the transfer to its caller: a
\* launch with distinct locations that has returned has returned the
\* acknowledgement, whatever became of the thread and of the job.
C10_NoErrorReachesCaller ==
    \A i \in Inv :
        /\ response[i] # RaisedResponse
        /\ (lpc[i] = "returned" /\ tpc[i] # "idle")
              => response[i] = TransferringResponse

\* C10 witness: the thread died of an exception nobody caught, after its
\* launch was spawned, and the caller holds the acknowledgement.
C10_Witness ==
    \E i \in Inv :
        /\ tpc[i] = "uncaught"
        /\ jobs[i].status = "running"
        /\ lpc[i] = "returned"
        /\ response[i] = TransferringResponse

\* C11: when the resolver raises, no copy is attempted, the job is never
\* 'done', its data stays 'Transfer components (Gathering...)', and it is
\* 'failed' once transfer_components returns.
C11_ResolverFailure ==
    \A i \in Inv :
        error[i] = QueryError
        => /\ attempted[i] = <<>>
           /\ jobs[i].status # "done"
           /\ jobs[i].data.description = "Transfer components (Gathering...)"
           /\ Len(jobLog[i].data) = 1
           /\ Returned(i) => jobs[i].status = "failed"

\* C11 witness: the resolver raised and the job has been persisted failed.
C11_Witness ==
    \E i \in Inv :
        /\ error[i] = QueryError
        /\ Returned(i)
        /\ jobs[i].status = "failed"
        /\ jobs[i].data = GatheringData

\* C12: an exception of add_component that is no location error aborts
\* the batch at its component whatever the flags.
C12_UnclassifiedErrorAborts ==
    \A i \in Inv : \A k \in 1..Len(outcomes[i]) :
        outcomes[i][k] = OtherError => AbortedAt(i, k)

\* C12 witness: both flags set, first of two copies raises an unclassified
\* error, the job is failed and the second component was not tried.
C12_Witness ==
    \E i \in Inv :
        /\ IgnoreMissing(i) /\ IgnoreErrors(i)
        /\ Len(components[i]) = 2
        /\ outcomes[i] = <<OtherError>>
        /\ Returned(i)
        /\ jobs[i].status = "failed"

\* C13: no invocation ends with its job persisted as 'running': once the
\* thread of a transfer is over, the job it created is 'done' or 'failed'.
C13_EndedJobIsTerminal ==
    \A i \in Inv :
        (ThreadEnded(i) /\ created[i] = 1)
        => jobs[i].status \in {"done", "failed"}

\* C14: the data persisted for a job is 'Gathering...' followed by
\* '1 of M', '2 of M', ..., 'k of M', with M the length of the resolved
\* list and k <= M, and k = M when the job is done.
C14_DescriptionSequence ==
    \A i \in Inv :
        created[i] = 1
        => LET d == jobLog[i].data
               k == Len(d) - 1
               M == Len(components[i])
           IN /\ k >= 0 /\ k <= M
              /\ d[1] = [description |-> "Transfer components (Gathering...)",
                         index |-> 0, amount |-> 0]
              /\ \A n \in 1..k :
                    d[n + 1] = [description |->
                                    "Transfer components ({0} of {1})",
                                index |-> n, amount |-> M]
              /\ jobs[i].data = d[k + 1]
              /\ jobs[i].status = "done" => k = M

\* C14 witness: MaxComp components, the job done, MaxComp + 1 data values.
C14_Witness ==
    \E i \in Inv :
        /\ jobs[i].status = "done"
        /\ Len(components[i]) = MaxComp
        /\ Len(jobLog[i].data) = MaxComp + 1

\* C15: a job changes only in a step of the thread that created it, and
\* the status a transfer returns with is decided by its own catalog calls
\* and copy outcomes.
C15_OwnOutcome ==
    \A i \in Inv :
        Returned(i)
        => jobs[i].status =
             IF /\ faults[i] = 0
                /\ \A k \in 1..Len(outcomes[i]) : Recoverable(i, outcomes[i][k])
             THEN "done" ELSE "failed"
C15_OwnStep ==
    \A j \in Inv :
        (jobs'[j] # jobs[j] \/ jobLog'[j] # jobLog[j])
        => /\ tpc'[j] # tpc[j]
           /\ \A i \in Inv \ {j} : jobs'[i] = jobs[i] /\ jobLog'[i] = jobLog[i]
C15_JobOwnedByInvocation == [](C15_OwnOutcome) /\ [][C15_OwnStep]_vars

\* C15 witness: one transfer is in its handler after a fatal copy error
\* while another is between two copies, its job running and unchanged.
C15_Witness ==
    \E i \in Inv : \E j \in Inv :
        /\ i # j
        /\ tpc[i] = "except"
        /\ error[i] \in {LocationError, OtherError, ComponentNotInLocationError}
        /\ tpc[j] = "copy"
        /\ index[j] = 2
        /\ jobs[j].status = "running"
        /\ jobs[j].data.index = 2

\* C19: the components passed to add_component are a prefix of the
\* resolved list, in its order; the k-th call comes after 'k of M' has
\* been persisted and before 'k + 1 of M' is.
C19_SequentialCopies ==
    \A i \in Inv :
        LET n == Len(attempted[i])
            persisted == IF created[i] = 1 THEN Len(jobLog[i].data) - 1 ELSE 0
        IN /\ n <= Len(components[i])
           /\ attempted[i] = SubSeq(components[i], 1, n)
           /\ Len(outcomes[i]) = n
           /\ n <= persisted
           /\ persisted <= n + 1
           /\ tpc[i] = "copy" => /\ persisted = n + 1
                                 /\ jobs[i].data.index = n + 1

\* C19 witness: the second copy is about to start, '2 of 2' persisted and
\* the first copy over.
C19_Witness ==
    \E i \in Inv :
        /\ tpc[i] = "copy"
        /\ Len(components[i]) = 2
        /\ attempted[i] = <<components[i][1]>>
        /\ jobs[i].data.index = 2

\* C20: the step that persists 'failed' leaves the persisted data as it
\* was: what a commit that raised had left recorded is rolled back.
C20_FailedStep ==
    \A i \in Inv :
        (jobs'[i].status = "failed" /\ jobs[i].status # "failed")
        => /\ jobs'[i].data = jobs[i].data
           /\ jobLog'[i].data = jobLog[i].data
           /\ ops'[i] = NoOps
C20_RollbackBeforeFailed == [][C20_FailedStep]_vars

\* C20 witness: the commit of '2 of 2' raised; the job is failed and its
\* data is still '1 of 2'.
C20_Witness ==
    \E i \in Inv :
        /\ jobs[i].status = "failed"
        /\ error[i] = CommitError
        /\ index[i] = 2
        /\ jobs[i].data.index = 1
        /\ Len(attempted[i]) = 1

C17_FormForEveryCatalog ==
    (input.handler = "launch" /\ output # NoOutput)
    => /\ output.kind = "form"
       /\ LET eligible == {l \in input.catalog :
                              l.accessor /\ l.name \notin excluded_locations}
              byId == [v \in {l.id : l \in eligible} |->
                          CHOOSE l \in eligible : l.id = v]
              values == [n \in 1..Len(output.options) |-> output.options[n].value]
          IN /\ Len(values) = Cardinality(eligible)
             /\ {values[n] : n \in 1..Len(values)} = {l.id : l \in eligible}
             /\ \A m \in 1..Len(values) : \A n \in 1..Len(values) :
                   m < n => byId[values[m]].priority <= byId[values[n]].priority
             /\ output.from_location \in {l.id : l \in eligible}
             /\ output.to_location \in {l.id : l \in eligible}
             /\ output.ignore_component_not_in_location = "false"
             /\ output.ignore_location_errors = "false"

\* C18: the resolver returns each component once, only components present
\* in the source location, and exactly those that a selected item covers:
\* the components of a selected version, a selected component, those whose
\* version's asset parent is a selected context or below it, or is a
\* selected project or in it.
Covers(item, c) ==
    LET parent == asset_parent[version_id[c]]
    IN CASE item.entityType = "assetversion" -> version_id[c] = item.entityId
         [] item.entityType = "Component" -> c = item.entityId
         [] item.entityType = "TypedContext" ->
                parent = item.entityId \/ item.entityId \in ancestors[parent]
         [] item.entityType = "Project" ->
                parent = item.entityId \/ item.entityId \in parent_project[parent]
         [] OTHER -> FALSE
C18_ResolverUnion ==
    (input.handler = "resolver" /\ output # NoOutput)
    => LET found == output.list
       IN /\ \A m \in 1..Len(found) : \A n \in 1..Len(found) :
                found[m] = found[n] => m = n
          /\ {found[n] : n \in 1..Len(found)} =
                {c \in CatalogComponents :
                    /\ input.location \in input.present[c]
                    /\ \E n \in 1..Len(input.entities) :
                          Covers(input.entities[n], c)}

\* C18 witness: a project and a component of it are both selected; the
\* component is returned once, and a component of the project that is not
\* in the source location is left out.
C18_Witness ==
    /\ input.handler = "resolver"
    /\ input.entities = <<[entityType |-> "Project", entityId |-> "p1"],
                          [entityType |-> "Component", entityId |-> 2]>>
    /\ input.location = "vault-A"
    /\ input.present[1] = {"vault-B"}
    /\ output = [kind |-> "components", list |-> <<2, 3>>]

\* C21: every call a transfer thread makes goes through the session the
\* thread opened for itself, never through the session of the action
\* (which handles discover and launch) nor through another thread's: the
\* copies included.
C21_PrivateSession ==
    \A i \in Inv :
        /\ sessions[i] \subseteq {ThreadSession(i)}
        /\ \A j \in Inv \ {i} : sessions[i] \cap sessions[j] = {}

\* C22: a job that is persisted 'done' or 'failed' belongs to a thread
\* that has ended, and no later step attempts a copy for that invocation
\* or writes its job, in the catalog or in the thread's session.
C22_TerminalIsEnd ==
    \A i \in Inv :
        jobs[i].status \in {"done", "failed"} => ThreadEnded(i)
C22_TerminalStep ==
    \A i \in Inv :
        jobs[i].status \in {"done", "failed"}
        => /\ jobs'[i] = jobs[i]
           /\ jobLog'[i] = jobLog[i]
           /\ ops'[i] = ops[i]
           /\ attempted'[i] = attempted[i]
           /\ outcomes'[i] = outcomes[i]
           /\ tpc'[i] = tpc[i]
C22_TerminalCommitIsLast == [](C22_TerminalIsEnd) /\ [][C22_TerminalStep]_vars

\* C22 witness: one job is done and one failed before its last component,
\* both with every step of their threads behind them.
C22_Witness ==
    \E i \in Inv : \E j \in Inv :
        /\ jobs[i].status = "done"
        /\ jobs[j].status = "failed"
        /\ Len(attempted[j]) < Len(components[j])
        /\ ThreadEnded(i) /\ ThreadEnded(j)

\* dict.get(key, {}) and dict.get(key, ''): the value, or the empty one.
Lookup(dict, key) == IF key \in DOMAIN dict THEN dict[key] ELSE <<>>
\* All keys of before but key are in after with their values, and after
\* has no key besides these and key.
OnlyKeyChanged(before, after, key) ==
    /\ DOMAIN after = DOMAIN before \cup {key}
    /\ \A k \in DOMAIN before \ {key} : after[k] = before[k]
\* string is other written in lower case.
IsLowerCaseOf(string, other) ==
    /\ Len(string) = Len(other)
    /\ \A n \in 1..Len(string) :
          /\ string[n] \notin {"W", "S"}
          /\ \/ string[n] = other[n]
             \/ <<other[n], string[n]>> \in {<<"W", "w">>, <<"S", "s">>}

\* C24 (as stated): the patched publish calls the original publish once,
\* with the arguments it was given; an event of another topic reaches it
\* unmodified, and a configure-location event always reaches it with
\* source.hostname set to the machine's host name in lower case.
C24_HostnameAlwaysSet ==
    (input.handler = "publish" /\ output # NoOutput)
    => /\ Len(output.calls) = 1
       /\ output.calls[1].args = input.args
       /\ LET sent == output.calls[1].event
          IN IF input.event["topic"] = CONFIGURE_LOCATION
             THEN /\ "source" \in DOMAIN sent
                  /\ "hostname" \in DOMAIN sent["source"]
                  /\ IsLowerCaseOf(sent["source"]["hostname"],
                                   input.gethostname.name)
             ELSE sent = input.event

\* C24 (amended): one call of the original publish with the arguments
\* given, also when gethostname raises; an event of another topic, and a
\* configure-location event when gethostname raises, reaches it
\* unmodified; a configure-location event whose host name lookup returns
\* reaches it with source.hostname set to that name in lower case and
\* nothing else changed.
C24_HostnameSetWhenKnown ==
    (input.handler = "publish" /\ output # NoOutput)
    => /\ Len(output.calls) = 1
       /\ output.calls[1].args = input.args
       /\ LET sent == output.calls[1].event
          IN IF input.event["topic"] = CONFIGURE_LOCATION
                /\ ~input.gethostname.raised
             THEN /\ OnlyKeyChanged(input.event, sent, "source")
                  /\ OnlyKeyChanged(Lookup(input.event, "source"),
                                    sent["source"], "hostname")
                  /\ IsLowerCaseOf(sent["source"]["hostname"],
                                   input.gethostname.name)
             ELSE sent = input.event

\* C24 witness: a configure-location event that names another machine is
\* published on WS1 and reaches the original publish naming ws1.
C24_Witness ==
    /\ input.handler = "publish"
    /\ input.event = [topic |-> CONFIGURE_LOCATION,
                      source |-> [hostname |-> <<"w", "s", "2">>,
                                  user |-> <<"u">>]]
    /\ input.gethostname = [raised |-> FALSE, name |-> <<"W", "S", "1">>]
    /\ output # NoOutput
    /\ output.calls[1].event["source"] =
           [hostname |-> <<"w", "s", "1">>, user |-> <<"u">>]

\* C27: after the hook, env['FTRACK_EVENT_PLUGIN_PATH'] of the event is
\* the plugin path when the variable was missing or empty, and otherwise
\* the previous value, the path separator and the plugin path; the
\* previous value is a prefix of the new one, and every other key of env,
\* of options, of data and of the event is as it was.
C27_PluginPathAppended ==
    (input.handler = "add_path" /\ output # NoOutput)
    => LET oldData == Lookup(input.event, "data")
           oldOptions == Lookup(oldData, "options")
           oldEnv == Lookup(oldOptions, "env")
           previous == Lookup(oldEnv, "FTRACK_EVENT_PLUGIN_PATH")
           newData == output.event["data"]
           newOptions == newData["options"]
           newEnv == newOptions["env"]
           value == newEnv["FTRACK_EVENT_PLUGIN_PATH"]
       IN /\ value = IF previous = <<>>
                     THEN <<"hook/locations">>
                     ELSE previous \o <<":">> \o <<"hook/locations">>
          /\ SubSeq(value, 1, Len(previous)) = previous
          /\ OnlyKeyChanged(oldEnv, newEnv, "FTRACK_EVENT_PLUGIN_PATH")
          /\ OnlyKeyChanged(oldOptions, newOptions, "env")
          /\ OnlyKeyChanged(oldData, newData, "options")
          /\ OnlyKeyChanged(input.event, output.event, "data")

\* C27 witness: the variable held two paths and env another variable; the
\* plugin path is now the third path and the other variable is untouched.
C27_Witness ==
    /\ input.handler = "add_path"
    /\ "data" \in DOMAIN input.event
    /\ input.event["data"] =
          [options |-> [env |-> [FTRACK_EVENT_PLUGIN_PATH |-> <<"/a", ":", "/b">>,
                                 PATH |-> <<"/old">>],
                        launch_args |-> <<"-v">>],
           selection |-> <<"sel">>]
    /\ output # NoOutput
    /\ output.event["data"]["options"]["env"] =
          [FTRACK_EVENT_PLUGIN_PATH |-> <<"/a", ":", "/b", ":", "hook/locations">>,
           PATH |-> <<"/old">>]

\* C25: session_add_s3_location calls session.ensure and sets an accessor,
\* structure and priority only when the location name, the bucket, an
\* endpoint (current or legacy variable) and the access key or the
\* profile are set and not empty; when one of them is missing nothing is
\* ensured and no location is changed.  What it configures is the location
\* of that name, with priority 10.
C25_S3NeedsEverySetting ==
    (input.handler = "session_add_s3_location" /\ output # NoOutput)
    => LET given(variable) == variable.set /\ variable.value # <<>>
           complete ==
             /\ given(input.env.S3_LOCATION_NAME)
             /\ given(input.env.S3_BUCKET)
             /\ \/ given(input.env.S3_MINIO_ENDPOINT_URL)
                \/ given(input.env.S3_MINIO_API_ENDPOINT_URL)
             /\ \/ given(input.env.AWS_ACCESS_KEY_ID)
                \/ given(input.env.AWS_PROFILE)
           session == output.session
       IN /\ ~complete => session = [ensured |-> <<>>, configured |-> <<>>,
                                     raised |-> "none"]
          /\ session.ensured # <<>> => complete
          /\ DOMAIN session.configured # {} => complete
          /\ \A name \in DOMAIN session.configured :
                /\ session.ensured = <<name>>
                /\ session.configured[name].priority = 10

\* C25 witness: only the legacy endpoint variable and only the profile are
\* set, and the location is configured with the legacy endpoint.
C25_Witness ==
    /\ input.handler = "session_add_s3_location"
    /\ ~input.env.S3_MINIO_ENDPOINT_URL.set
    /\ input.env.AWS_ACCESS_KEY_ID.value = <<>>
    /\ output # NoOutput
    /\ output.session.ensured = <<<<"s", "3">>>>
    /\ output.session.configured[<<"s", "3">>].accessor.endpoint_url = <<"v">>

\* Two host names that differ at most in the case of their letters.
SameHostname(one, other) ==
    /\ Len(one) = Len(other)
    /\ \A n \in 1..Len(one) :
          \/ one[n] = other[n]
          \/ {one[n], other[n]} \in {{"W", "w"}, {"S", "s"}}

\* C23: each of the two configure-location handlers skips the event, and
\* then makes no call on the session, exactly when the event's source has
\* a hostname that is not empty and is not this machine's host name,
\* whatever the case of the letters; every other event is processed: the
\* handler goes on to the locations of its mapping or environment.
C23_HostnameFilter ==
    (input.handler \in {"configure_locations", "configure_s3_location"}
     /\ output # NoOutput)
    => LET source == Lookup(input.event, "source")
           hostname == Lookup(source, "hostname")
           foreign == hostname # <<>> /\ ~SameHostname(hostname, input.current)
       IN /\ output.skipped <=> foreign
          /\ output.skipped
             => output.session = [ensured |-> <<>>, configured |-> <<>>,
                                  raised |-> "none"]
          /\ ~output.skipped
             => output.session =
                  IF input.handler = "configure_locations"
                  THEN session_add_user_location(input.location_setup)
                  ELSE session_add_s3_location(input.env)

\* C23 witness: an event from ws1 is handled on WS1 and the location of
\* the mapping gets its accessor.
C23_Witness ==
    /\ input.handler = "configure_locations"
    /\ Lookup(Lookup(input.event, "source"), "hostname") = <<"w", "s", "1">>
    /\ input.current = <<"W", "S", "1">>
    /\ output # NoOutput
    /\ ~output.skipped
    /\ output.session.ensured = <<<<"a">>>>
    /\ output.session.configured[<<"a">>].accessor.prefix = <<"/mnt">>

\* A name that is empty or made of blanks.
IsBlank(name) == \A n \in 1..Len(name) : name[n] = " "
\* Entry n of a location mapping has a path for the platform.
HasPath(mapping, n) ==
    LET data == mapping[n].data
    IN /\ "prefix" \in DOMAIN data
       /\ ~data["prefix"].null
       /\ "linux" \in DOMAIN data["prefix"].value
       /\ data["prefix"].value["linux"] # <<>>

\* C26: for every location mapping, session_add_user_location makes no
\* session call for an entry with a blank name, and a named entry's
\* location gets accessor, structure and priority exactly when the entry
\* has a path for the platform, whatever the entries before it are; and
\* load_location_config returns no entry with a blank name.
C26_EveryEntryOnItsOwn ==
    /\ (input.handler = "session_add_user_location" /\ output # NoOutput)
       => LET mapping == input.location_setup
              named == {n \in 1..Len(mapping) : ~IsBlank(mapping[n].name)}
              session == output.session
          IN /\ \A k \in 1..Len(session.ensured) : ~IsBlank(session.ensured[k])
             /\ Len(session.ensured) <= Cardinality(named)
             /\ \A name \in DOMAIN session.configured : ~IsBlank(name)
             /\ \A n \in named :
                   strip(mapping[n].name) \in DOMAIN session.configured
                   <=> \E m \in named :
                          /\ strip(mapping[m].name) = strip(mapping[n].name)
                          /\ HasPath(mapping, m)
    /\ (input.handler = "load_location_config" /\ output # NoOutput)
       => \A name \in DOMAIN output.locations : ~IsBlank(name)
====
